---------------------------- MODULE Spec2Model ----------------------------
(***************************************************************************)
(* Krystaly (app.py): the progression, reward and ranking engine of an     *)
(* idle-clicker game served by Flask handlers over one PostgreSQL table,   *)
(* crystal_game_data.  Every handler is a SELECT followed by an UPDATE on  *)
(* its own pooled connection.  Spec takes each handler as one step;        *)
(* SpecConc splits a handler into its SELECT step and its UPDATE/commit    *)
(* step, so that two requests on one player interleave.  SpecRank asks     *)
(* for leaderboards of the tables save_game can leave.                     *)
(***************************************************************************)
EXTENDS Integers, Sequences, FiniteSets, TLC

VARIABLES
    db,        \* crystal_game_data: id -> row, for the ids that have a row
    nextId,    \* the SERIAL sequence behind the id column
    now,       \* the application's clock, datetime.now(), in seconds
    skew,      \* the store's clock minus the application's clock
    resp,      \* the last response sent, with the request it answers
    args,      \* the parameters and random draws of that request (Spec)
    prev,      \* the table as it was when that request arrived
    okClaim,   \* id -> application time of the last successful claim
    prevClaim, \* okClaim as it was when the last request arrived
    served,    \* the number of requests answered so far
    req        \* SpecConc: the requests in flight, by connection

vars ==
    <<db, nextId, now, skew, resp, args, prev, okClaim, prevClaim, served, req>>

-----------------------------------------------------------------------------
(* Bounds of the model. *)

MaxPlayers == 1      \* rows the table may hold
MaxTime == 3600      \* the application clock stops here
MaxConn == 2         \* connections that carry a request at a time (SpecConc)
MaxRequests == 4     \* requests answered in one run
MaxRows == 16        \* players in a table of SpecRank

-----------------------------------------------------------------------------
(* The table's columns and their defaults (CREATE TABLE). *)

ProducerColumns ==
    <<"autoclickers", "factories", "mines", "refineries", "quantumdrills",
      "magicwells", "starforges", "timeaccelerators", "voidharvesters">>

PriceColumns ==
    <<"priceautoclicker", "pricefactory", "pricemine", "pricerefinery",
      "pricequantumdrill", "pricemagicwell", "pricestarforge",
      "pricetimeaccelerator", "pricevoidharvester", "priceclickpower">>

\* The price the table gives a new row, which is also the price rebirth
\* writes back.
BasePrice ==
    [priceautoclicker |-> 5, pricefactory |-> 50, pricemine |-> 500,
     pricerefinery |-> 5000, pricequantumdrill |-> 50000,
     pricemagicwell |-> 500000, pricestarforge |-> 5000000,
     pricetimeaccelerator |-> 50000000, pricevoidharvester |-> 1000000000,
     priceclickpower |-> 20]

LuckBonusBackdate == 7200   \* lastluckbonus DEFAULT now - INTERVAL '2 hours'

StoreClock == now + skew    \* CURRENT_TIMESTAMP as the store reads it

DefaultRow(username, password, stamp) ==
    [username |-> username, password |-> password,
     crystals |-> 0, lifetime_crystals |-> 0,
     autoclickers |-> 0, factories |-> 0, mines |-> 0, refineries |-> 0,
     quantumdrills |-> 0, supertokens |-> 0, magicwells |-> 0,
     starforges |-> 0, timeaccelerators |-> 0, voidharvesters |-> 0,
     clickpower |-> 1, totalclicks |-> 0,
     priceautoclicker |-> BasePrice.priceautoclicker,
     pricefactory |-> BasePrice.pricefactory,
     pricemine |-> BasePrice.pricemine,
     pricerefinery |-> BasePrice.pricerefinery,
     pricequantumdrill |-> BasePrice.pricequantumdrill,
     pricemagicwell |-> BasePrice.pricemagicwell,
     pricestarforge |-> BasePrice.pricestarforge,
     pricetimeaccelerator |-> BasePrice.pricetimeaccelerator,
     pricevoidharvester |-> BasePrice.pricevoidharvester,
     priceclickpower |-> BasePrice.priceclickpower,
     rebirthcount |-> 0, rebirthpoints |-> 0,
     bonusclickpower |-> 0, bonusproduction |-> 0, bonusrebirthpoints |-> 0,
     lucklevel |-> 0, mysteryboxes |-> 0,
     lastluckbonus |-> stamp - LuckBonusBackdate]

-----------------------------------------------------------------------------
(* Responses: the HTTP status and the JSON body's message. *)

Fail(code, message) == [success |-> FALSE, code |-> code, message |-> message]

MsgMissingUserId == "Chybi user_id"
MsgCredentialsRequired == "Uzivatelske jmeno a heslo jsou povinne"
MsgUsernameTooLong == "Uzivatelske jmeno je prilis dlouhe"
MsgUserExists == "Uzivatel jiz existuje"
MsgPlayerNotFound == "Hrac nenalezen"
MsgNoBoxes == "Nemas zadne mystery boxy!"
MsgCooldown == "Luck bonus bude dostupny za {minutes} minut!"
MsgNoLuck == "Nemas zadne luck levely!"
MsgNeedCrystals == "Potrebujes alespon {required} kristalu pro rebirth!"
MsgNeedPoints == "Potrebujes alespon {cost} rebirth bodu pro upgrade!"
MsgBadBonusType == "Neplatny typ bonusu"

\* The 500 a handler answers when its try block raises
MsgStoreError ==
    [save_game |-> "Chyba pri ukladani",
     open_mystery_box |-> "Chyba pri otvirani mystery boxu",
     claim_luck_bonus |-> "Chyba pri ziskavani luck bonusu",
     rebirth |-> "Chyba pri rebirthu",
     upgrade_rebirth |-> "Chyba pri upgradu"]

NoRequest == [op |-> "none"]

\* A response, kept with the request it answers and the application time.
Answer(op, id, body) == [op |-> op, id |-> id, body |-> body, at |-> now]

-----------------------------------------------------------------------------
(* register *)

Blank == " "

RECURSIVE LStrip(_)
LStrip(s) == IF s # <<>> /\ Head(s) = Blank THEN LStrip(Tail(s)) ELSE s

RECURSIVE RStrip(_)
RStrip(s) ==
    IF s # <<>> /\ s[Len(s)] = Blank THEN RStrip(SubSeq(s, 1, Len(s) - 1))
    ELSE s

\* str.strip() on a string held as its sequence of characters
Strip(s) == RStrip(LStrip(s))

MaxUsernameLen == 50

\* The row register's SELECT finds for a username, as a set of ids.
IdsOfUsername(store, username) ==
    {i \in DOMAIN store : store[i].username = username}

\* What register answers and writes for the posted username and password.
RegisterResult(store, serial, stamp, rawUsername, rawPassword) ==
    LET username == Strip(rawUsername)
        password == Strip(rawPassword)
    IN  IF username = <<>> \/ password = <<>>
        THEN [db |-> store, serial |-> serial,
              body |-> Fail(400, MsgCredentialsRequired)]
        ELSE IF Len(username) > MaxUsernameLen
        THEN [db |-> store, serial |-> serial,
              body |-> Fail(400, MsgUsernameTooLong)]
        ELSE IF IdsOfUsername(store, username) # {}
        THEN [db |-> store, serial |-> serial,
              body |-> Fail(400, MsgUserExists)]
        ELSE [db |-> (serial :> DefaultRow(username, password, stamp)) @@ store,
              serial |-> serial + 1,
              body |-> [success |-> TRUE, code |-> 200]]


-----------------------------------------------------------------------------
(* The UPDATE statements, as data: a handler chooses its statement after   *)
(* its SELECT, and the store runs it on the row as it is at that moment.   *)

\* Variant of Get whose default is 0 whatever the key.
GetOrZero(gd, key, default) == IF key \in DOMAIN gd THEN gd[key] ELSE 0

\* dict.get(key, default) on the posted game_data
Get(gd, key, default) == IF key \in DOMAIN gd THEN gd[key] ELSE default

\* save_game's UPDATE: every column takes the posted value or its default.
SavedRow(row, gd) ==
    [row EXCEPT
        !.crystals = Get(gd, "crystals", 0),
        !.lifetime_crystals = Get(gd, "lifetime_crystals", 0),
        !.autoclickers = Get(gd, "autoclickers", 0),
        !.factories = Get(gd, "factories", 0),
        !.mines = Get(gd, "mines", 0),
        !.refineries = Get(gd, "refineries", 0),
        !.quantumdrills = Get(gd, "quantumDrills", 0),
        !.magicwells = Get(gd, "magicWells", 0),
        !.starforges = Get(gd, "starForges", 0),
        !.timeaccelerators = Get(gd, "timeAccelerators", 0),
        !.voidharvesters = Get(gd, "voidHarvesters", 0),
        !.clickpower = Get(gd, "clickPower", 1),
        !.totalclicks = Get(gd, "totalClicks", 0),
        !.priceautoclicker = Get(gd, "priceAutoclicker", 5),
        !.pricefactory = Get(gd, "priceFactory", 50),
        !.pricemine = Get(gd, "priceMine", 500),
        !.pricerefinery = Get(gd, "priceRefinery", 5000),
        !.pricequantumdrill = Get(gd, "priceQuantumDrill", 50000),
        !.pricemagicwell = Get(gd, "priceMagicWell", 500000),
        !.pricestarforge = Get(gd, "priceStarForge", 5000000),
        !.pricetimeaccelerator = Get(gd, "priceTimeAccelerator", 50000000),
        !.pricevoidharvester = Get(gd, "priceVoidHarvester", 1000000000),
        !.priceclickpower = Get(gd, "priceClickPower", 20),
        !.rebirthcount = Get(gd, "rebirthCount", 0),
        !.rebirthpoints = Get(gd, "rebirthPoints", 0),
        !.bonusclickpower = Get(gd, "bonusClickPower", 0),
        !.bonusproduction = Get(gd, "bonusProduction", 0),
        !.bonusrebirthpoints = Get(gd, "bonusRebirthPoints", 0),
        !.lucklevel = Get(gd, "luckLevel", 0),
        !.mysteryboxes = Get(gd, "mysteryBoxes", 0)]

\* open_mystery_box's UPDATE for a crystals or production_boost reward
BoxCrystalsRow(row, amount) ==
    [row EXCEPT !.crystals = @ + amount, !.mysteryboxes = @ - 1]

\* Variant of BoxClickRow that pays the amount into crystals.
BoxClickRowAsCrystals(row, amount) ==
    [row EXCEPT !.crystals = @ + amount, !.mysteryboxes = @ - 1]

\* open_mystery_box's UPDATE for a click_power reward
BoxClickRow(row, amount) ==
    [row EXCEPT !.clickpower = @ + amount, !.mysteryboxes = @ - 1]

\* Variant of LuckRow that leaves lastluckbonus as it was.
LuckRowUnstamped(row, bonus, withBox, stamp) ==
    [row EXCEPT
        !.crystals = @ + bonus,
        !.mysteryboxes = IF withBox THEN @ + 1 ELSE @]

\* claim_luck_bonus's UPDATE; stamp is CURRENT_TIMESTAMP, the store's time
\* at the start of the transaction.
LuckRow(row, bonus, withBox, stamp) ==
    [row EXCEPT
        !.crystals = @ + bonus,
        !.mysteryboxes = IF withBox THEN @ + 1 ELSE @,
        !.lastluckbonus = stamp]

\* Variant of RebirthRow that moves the three counters and the crystals, and
\* resets nothing else.
RebirthRowCountersOnly(row, points, luck) ==
    [row EXCEPT
        !.crystals = 0,
        !.rebirthcount = @ + 1,
        !.rebirthpoints = @ + points,
        !.lucklevel = @ + luck]

\* rebirth's UPDATE
RebirthRow(row, points, luck) ==
    [row EXCEPT
        !.crystals = 0,
        !.autoclickers = 0, !.factories = 0, !.mines = 0, !.refineries = 0,
        !.quantumdrills = 0, !.magicwells = 0, !.starforges = 0,
        !.timeaccelerators = 0, !.voidharvesters = 0,
        !.clickpower = 1,
        !.priceautoclicker = 5, !.pricefactory = 50, !.pricemine = 500,
        !.pricerefinery = 5000, !.pricequantumdrill = 50000,
        !.pricemagicwell = 500000, !.pricestarforge = 5000000,
        !.pricetimeaccelerator = 50000000,
        !.pricevoidharvester = 1000000000,
        !.priceclickpower = 20,
        !.rebirthcount = @ + 1,
        !.rebirthpoints = @ + points,
        !.lucklevel = @ + luck]

UpgradeIncrement == 100

\* Variant of UpgradeRow that raises the bonus and takes no points.
UpgradeRowUnpaid(row, field, cost) ==
    [row EXCEPT ![field] = @ + UpgradeIncrement]

\* upgrade_rebirth's UPDATE
UpgradeRow(row, field, cost) ==
    [row EXCEPT ![field] = @ + UpgradeIncrement, !.rebirthpoints = @ - cost]

\* The row a statement leaves.
Updated(row, stmt) ==
    CASE stmt.kind = "save" -> SavedRow(row, stmt.gd)
      [] stmt.kind = "box_crystals" -> BoxCrystalsRow(row, stmt.amount)
      [] stmt.kind = "box_click" -> BoxClickRow(row, stmt.amount)
      [] stmt.kind = "luck" ->
            LuckRow(row, stmt.bonus, stmt.withBox, stmt.stamp)
      [] stmt.kind = "rebirth" -> RebirthRow(row, stmt.points, stmt.luck)
      [] stmt.kind = "upgrade" -> UpgradeRow(row, stmt.field, stmt.cost)

\* Variant of Execute for an UPDATE without its WHERE.
ExecuteEveryRow(store, id, stmt) ==
    [i \in DOMAIN store |-> Updated(store[i], stmt)]

\* UPDATE ... WHERE id = %s, and the commit: no row, no change.
Execute(store, id, stmt) ==
    IF id \in DOMAIN store
    THEN [store EXCEPT ![id] = Updated(@, stmt)]
    ELSE store


-----------------------------------------------------------------------------
(* A handler's SELECT and the decision it takes on what it read: either    *)
(* the failure it answers at once (go = FALSE), or the UPDATE it will run  *)
(* (go = TRUE) and the body it answers after the commit.                   *)

Refuse(body) == [go |-> FALSE, body |-> body]

Proceed(stmt, body) == [go |-> TRUE, stmt |-> stmt, body |-> body]

Ok(fields) == [success |-> TRUE, code |-> 200] @@ fields

\* save_game: no SELECT; the UPDATE runs whatever the id.
SavePlan(id, gd) ==
    IF id = 0 THEN Refuse(Fail(400, MsgMissingUserId))
    ELSE Proceed([kind |-> "save", gd |-> gd], [success |-> TRUE, code |-> 200])

\* open_mystery_box: the reward templates, each with its randint range
Rewards ==
    <<[type |-> "crystals", lo |-> 1000, hi |-> 50000, name |-> "Kristaly"],
      [type |-> "crystals", lo |-> 10000, hi |-> 100000,
       name |-> "Velke mnozstvi kristalu"],
      [type |-> "click_power", lo |-> 1, hi |-> 5, name |-> "Sila kliku"],
      [type |-> "production_boost", lo |-> 50000, hi |-> 200000,
       name |-> "Produkcni boost"]>>

\* Variant of OpenBoxPlan that refuses only below zero boxes.
OpenBoxPlanBelowZero(store, id, pick, amount) ==
    IF id = 0 THEN Refuse(Fail(400, MsgMissingUserId))
    ELSE IF id \notin DOMAIN store \/ store[id].mysteryboxes < 0
    THEN Refuse(Fail(400, MsgNoBoxes))
    ELSE LET reward == [type |-> Rewards[pick].type, amount |-> amount,
                        name |-> Rewards[pick].name]
         IN  Proceed([kind |-> IF reward.type = "click_power"
                               THEN "box_click" ELSE "box_crystals",
                      amount |-> amount],
                     Ok([reward |-> reward]))

OpenBoxPlan(store, id, pick, amount) ==
    IF id = 0 THEN Refuse(Fail(400, MsgMissingUserId))
    ELSE IF id \notin DOMAIN store \/ store[id].mysteryboxes <= 0
    THEN Refuse(Fail(400, MsgNoBoxes))
    ELSE LET reward == [type |-> Rewards[pick].type, amount |-> amount,
                        name |-> Rewards[pick].name]
         IN  Proceed([kind |-> IF reward.type = "click_power"
                               THEN "box_click" ELSE "box_crystals",
                      amount |-> amount],
                     Ok([reward |-> reward]))

Cooldown == 3600

Min(a, b) == IF a <= b THEN a ELSE b

Max(a, b) == IF a >= b THEN a ELSE b

\* Variant of LuckBonus that rounds a half up.
LuckBonusRoundedUp(base, luckLevel) == (base * (2 + luckLevel) + 1) \div 2

\* int(base_bonus * (1 + luck_level * 0.5)): halves are exact in binary
LuckBonus(base, luckLevel) == (base * (2 + luckLevel)) \div 2

\* Variant of MysteryBoxChance without the cap.
MysteryBoxChanceUncapped(luckLevel) == luckLevel * 5

\* mystery_box_chance
MysteryBoxChance(luckLevel) == Min(luckLevel * 5, 50)

\* claim_luck_bonus: clock is datetime.now(), stamp the store's
\* CURRENT_TIMESTAMP of the transaction; base and roll are the two randint.
ClaimPlan(store, id, clock, stamp, base, roll) ==
    IF id = 0 THEN Refuse(Fail(400, MsgMissingUserId))
    ELSE IF id \notin DOMAIN store
    THEN Refuse(Fail(404, MsgPlayerNotFound))
    ELSE IF clock - store[id].lastluckbonus < Cooldown
    THEN Refuse(Fail(400, MsgCooldown) @@
                [minutes |->
                    (Cooldown - (clock - store[id].lastluckbonus)) \div 60])
    ELSE IF store[id].lucklevel <= 0
    THEN Refuse(Fail(400, MsgNoLuck))
    ELSE LET bonus == LuckBonus(base, store[id].lucklevel)
             withBox == roll <= MysteryBoxChance(store[id].lucklevel)
         IN  Proceed([kind |-> "luck", bonus |-> bonus, withBox |-> withBox,
                      stamp |-> stamp],
                     Ok([bonus |-> bonus, got_mystery_box |-> withBox]))

-----------------------------------------------------------------------------
(* rebirth points:                                                         *)
(*   max(1, floor((log10(c) + c / 1_000_000) * (1 + b / 100)))             *)

RECURSIVE Pow10(_)
Pow10(n) == IF n = 0 THEN 1 ELSE 10 * Pow10(n - 1)

RECURSIVE Log10Floor(_)
Log10Floor(c) == IF c < 10 THEN 0 ELSE 1 + Log10Floor(c \div 10)

IsPowerOfTen(c) == c = Pow10(Log10Floor(c))

\* floor(10^(j/10) * 10^6), j = 1..9: where the first decimal of log10 turns
TenthRoots ==
    <<1258925, 1584893, 1995262, 2511886, 3162277, 3981071, 5011872,
      6309573, 7943282>>

\* log10(c) in tenths, for c >= 1 that is no power of ten: lo/10 < log10(c)
\* < hi/10.  The leading seven digits of c decide, exactly when c has no more.
Log10Tenths(c) ==
    LET d == Log10Floor(c)
        m == IF d <= 6 THEN c * Pow10(6 - d) ELSE c \div Pow10(d - 6)
        above == Cardinality({j \in 1..9 : m > TenthRoots[j]})
        reach == Cardinality({j \in 1..9 : m >= TenthRoots[j]})
    IN  [lo |-> 10 * d + above,
         hi |-> 10 * d + (IF d <= 6 THEN above ELSE reach) + 1]

\* (x * y) / 10^8 as its floor q and whether it is an integer, x and y >= 0,
\* without a product beyond 32 bits.
Scaled(x, y) ==
    LET a == (x \div 10000) * y
        b == (x % 10000) * y
        h == a + (b \div 10000)
    IN  [q |-> h \div 10000, whole |-> (h % 10000 = 0) /\ (b % 10000 = 0)]

\* The values floor() may take when log10(c) is known to a tenth: the
\* product lies strictly between the two ends, and a float on an end may
\* fall either side of it.
BracketFloors(c, b) ==
    LET t == Log10Tenths(c)
        low == Scaled(t.lo * 100000 + c, 100 + b)
        high == Scaled(t.hi * 100000 + c, 100 + b)
    IN  (IF low.whole THEN low.q - 1 ELSE low.q) .. high.q

(* Python floats are IEEE-754 doubles: 53 significant bits, each result  *)
(* rounded to the nearest, ties to even.  A double is held here as the    *)
(* bits of its significand, most significant first, and the exponent e of *)
(* the last bit: its value is m * 2^e.                                    *)

Precision == 53

RECURSIVE NatBits(_)
NatBits(n) == IF n = 0 THEN <<>> ELSE Append(NatBits(n \div 2), n % 2)

RECURSIVE BitsNat(_)
BitsNat(bits) ==
    LET n == Len(bits) IN
    IF n = 0 THEN 0
    ELSE IF n = 1 THEN bits[1]
    ELSE BitsNat(SubSeq(bits, 1, n \div 2)) * (2 ^ (n - n \div 2))
         + BitsNat(SubSeq(bits, n \div 2 + 1, n))

Zeros(k) == [i \in 1..k |-> 0]

\* Long addition and division go ChunkBits bits a step; the results are the
\* same for every width whose sums fit an integer.
ChunkBits == 16

RECURSIVE AddBits(_, _, _)
AddBits(a, b, carry) ==
    IF Len(a) <= ChunkBits /\ Len(b) <= ChunkBits
    THEN NatBits(BitsNat(a) + BitsNat(b) + carry)
    ELSE LET la == Len(a)
             lb == Len(b)
             sum == BitsNat(SubSeq(a, Max(1, la - ChunkBits + 1), la))
                    + BitsNat(SubSeq(b, Max(1, lb - ChunkBits + 1), lb)) + carry
             low == NatBits(sum % (2 ^ ChunkBits))
         IN  AddBits(SubSeq(a, 1, la - ChunkBits), SubSeq(b, 1, lb - ChunkBits),
                     sum \div (2 ^ ChunkBits))
             \o Zeros(ChunkBits - Len(low)) \o low

RECURSIVE MulBits(_, _)
MulBits(a, b) ==
    LET n == Len(b) IN
    IF n = 0 \/ a = <<>> THEN <<>>
    ELSE IF n = 1 THEN (IF b[1] = 1 THEN a ELSE <<>>)
    ELSE LET h == n \div 2
             high == MulBits(a, SubSeq(b, 1, n - h))
             low == MulBits(a, SubSeq(b, n - h + 1, n))
         IN  AddBits(IF high = <<>> THEN high ELSE high \o Zeros(h), low, 0)

\* The double nearest to bits * 2^e (plus a nonzero remainder below the last
\* bit when sticky), ties to even.
RoundDouble(bits, e, sticky) ==
    LET n == Len(bits) IN
    IF n <= Precision THEN [m |-> bits, e |-> e]
    ELSE LET keep == SubSeq(bits, 1, Precision)
             rest == sticky \/ \E i \in (Precision + 2)..n : bits[i] = 1
             up == bits[Precision + 1] = 1 /\ (rest \/ keep[Precision] = 1)
             m == IF up THEN AddBits(keep, <<1>>, 0) ELSE keep
         IN  IF Len(m) > Precision
             THEN [m |-> SubSeq(m, 1, Precision), e |-> e + n - Precision + 1]
             ELSE [m |-> m, e |-> e + n - Precision]

\* float(n), n a natural below 2^31
DoubleOfNat(n) == [m |-> NatBits(n), e |-> 0]

\* Long division of r / q, r < q, one bit after the binary point a step, for
\* at most `steps` steps or until `need` significant bits are there; acc
\* holds the bits so far, k their number after the point.
RECURSIVE QuotientSteps(_, _, _)
QuotientSteps(s, q, steps) ==
    IF steps = 0 \/ s.need <= 0 \/ s.rem = 0 THEN s
    ELSE LET bit == IF 2 * s.rem >= q THEN 1 ELSE 0
             next == IF s.bits = <<>> /\ bit = 0 THEN s.bits
                     ELSE Append(s.bits, bit)
         IN  QuotientSteps([bits |-> next, k |-> s.k + 1,
                            rem |-> 2 * s.rem - bit * q,
                            need |-> IF next = <<>> THEN s.need
                                     ELSE s.need - 1],
                           q, steps - 1)

RECURSIVE QuotientBits(_, _)
QuotientBits(s, q) ==
    IF s.need <= 0 \/ s.rem = 0 THEN s
    ELSE QuotientBits(QuotientSteps(s, q, ChunkBits), q)

\* a / q for naturals a and q > 0: Python's true division, correctly rounded
DoubleDiv(a, q) ==
    LET whole == NatBits(a \div q)
        frac == QuotientBits([bits |-> whole, k |-> 0, rem |-> a % q,
                              need |-> Precision + 2 - Len(whole)], q)
    IN  RoundDouble(frac.bits, 0 - frac.k, frac.rem # 0)

\* x + y for doubles >= 0
DoubleAdd(x, y) ==
    IF x.m = <<>> THEN y
    ELSE IF y.m = <<>> THEN x
    ELSE LET e == Min(x.e, y.e)
         IN  RoundDouble(AddBits(x.m \o Zeros(x.e - e), y.m \o Zeros(y.e - e), 0),
                         e, FALSE)

\* x * y for doubles >= 0
DoubleMul(x, y) == RoundDouble(MulBits(x.m, y.m), x.e + y.e, FALSE)

\* math.floor(x) for a double >= 0
DoubleFloor(x) ==
    IF x.e >= 0 THEN BitsNat(x.m) * (2 ^ x.e)
    ELSE IF Len(x.m) + x.e <= 0 THEN 0
    ELSE BitsNat(SubSeq(x.m, 1, Len(x.m) + x.e))

\* floor((log10(c) + c / 1_000_000) * (1 + b / 100)) in floats, for c a
\* power of ten (where log10 returns the exponent exactly) and b >= 0
FloatFloor(c, b) ==
    DoubleFloor(
        DoubleMul(DoubleAdd(DoubleOfNat(Log10Floor(c)), DoubleDiv(c, 1000000)),
                  DoubleAdd(DoubleOfNat(1), DoubleDiv(b, 100))))

\* FloatFloor at the powers of ten and bonuses the snapshots below and the
\* upgrades from them reach, computed once; FloatFloorAt is FloatFloor.
RECURSIVE FloatFloorRow(_, _, _)
FloatFloorRow(c, first, last) ==
    IF first > last THEN <<>>
    ELSE IF first = last THEN <<FloatFloor(c, 100 * first)>>
    ELSE FloatFloorRow(c, first, (first + last) \div 2)
         \o FloatFloorRow(c, (first + last) \div 2 + 1, last)

FloatFloorTable ==
    <<FloatFloorRow(100000, 0, 60), FloatFloorRow(1000000, 0, 60)>>

FloatFloorAt(c, b) ==
    IF c \in {100000, 1000000} /\ b % 100 = 0 /\ b \div 100 <= 60
    THEN FloatFloorTable[Log10Floor(c) - 4][b \div 100 + 1]
    ELSE FloatFloor(c, b)

\* The values rebirth_points may take for current_crystals = c and
\* bonus_rebirth_points = b.
RebirthPoints(c, b) ==
    IF c <= 0 THEN {1}
    ELSE IF 100 + b <= 0 THEN {1}
    ELSE IF IsPowerOfTen(c) /\ b >= 0 THEN {Max(1, FloatFloorAt(c, b))}
    ELSE {Max(1, g) : g \in BracketFloors(c, b)}

\* Variant of RequiredCrystals that grows by a fixed step.
RequiredCrystalsLinear(rebirthCount) == 100000 * (rebirthCount + 1)

\* required_crystals
RequiredCrystals(rebirthCount) == 100000 * (2 ^ rebirthCount)

LuckChance == 35

\* rebirth: points is the value computed, roll the randint(1, 100)
RebirthPlan(store, id, points, roll) ==
    IF id = 0 THEN Refuse(Fail(400, MsgMissingUserId))
    ELSE IF id \notin DOMAIN store
    THEN Refuse(Fail(404, MsgPlayerNotFound))
    ELSE IF store[id].crystals < RequiredCrystals(store[id].rebirthcount)
    THEN Refuse(Fail(400, MsgNeedCrystals) @@
                [required |-> RequiredCrystals(store[id].rebirthcount)])
    ELSE LET luck == IF roll <= LuckChance THEN 1 ELSE 0
         IN  Proceed([kind |-> "rebirth", points |-> points, luck |-> luck],
                     Ok([gainedPoints |-> points, luckGained |-> luck]))

UpgradeCost == 10

BonusColumn(type) ==
    IF type = "click" THEN "bonusclickpower"
    ELSE IF type = "production" THEN "bonusproduction"
    ELSE "bonusrebirthpoints"

\* upgrade_rebirth
UpgradePlan(store, id, type) ==
    IF id = 0 THEN Refuse(Fail(400, MsgMissingUserId))
    ELSE IF type \notin {"click", "production", "points"}
    THEN Refuse(Fail(400, MsgBadBonusType))
    ELSE IF id \notin DOMAIN store
    THEN Refuse(Fail(404, MsgPlayerNotFound))
    ELSE IF store[id].rebirthpoints < UpgradeCost
    THEN Refuse(Fail(400, MsgNeedPoints) @@ [cost |-> UpgradeCost])
    ELSE Proceed([kind |-> "upgrade", field |-> BonusColumn(type),
                  cost |-> UpgradeCost],
                 [success |-> TRUE, code |-> 200])

\* The body sent after the commit: rebirth and upgrade_rebirth add what
\* their UPDATE ... RETURNING gave back.
Reply(plan, store, id) ==
    IF ~plan.go THEN plan.body
    ELSE IF plan.stmt.kind = "rebirth"
    THEN plan.body @@ [rebirthCount |-> store[id].rebirthcount,
                       rebirthPoints |-> store[id].rebirthpoints,
                       luckLevel |-> store[id].lucklevel]
    ELSE IF plan.stmt.kind = "upgrade"
    THEN plan.body @@ [newValue |-> store[id][plan.stmt.field],
                       remainingPoints |-> store[id].rebirthpoints]
    ELSE plan.body


-----------------------------------------------------------------------------
(* What the requests carry. *)

\* The ids a request may name: 0 (none given), the rows, and one past them.
UserIds == 0..(MaxPlayers + 1)

TenLetters == <<"x", "x", "x", "x", "x", "x", "x", "x", "x", "x">>

\* Plain, padded, a second name, empty, and one of 51 characters
Usernames ==
    {<<"a">>, <<" ", "a", " ">>, <<"b">>, <<>>,
     TenLetters \o TenLetters \o TenLetters \o TenLetters \o TenLetters
        \o <<"x">>}

Passwords == {<<"p">>, <<" ">>}

\* A game_data that names every key: a player part-way through a run.
GameData(crystals, rebirths, points, bonusPoints, luck, boxes) ==
    [crystals |-> crystals, lifetime_crystals |-> 900000,
     autoclickers |-> 10, factories |-> 2, mines |-> 1, refineries |-> 0,
     quantumDrills |-> 0, magicWells |-> 0, starForges |-> 0,
     timeAccelerators |-> 0, voidHarvesters |-> 1,
     clickPower |-> 7, totalClicks |-> 42,
     priceAutoclicker |-> 20, priceFactory |-> 66, priceMine |-> 575,
     priceRefinery |-> 5000, priceQuantumDrill |-> 50000,
     priceMagicWell |-> 500000, priceStarForge |-> 5000000,
     priceTimeAccelerator |-> 50000000, priceVoidHarvester |-> 1150000000,
     priceClickPower |-> 23,
     rebirthCount |-> rebirths, rebirthPoints |-> points,
     bonusClickPower |-> 100, bonusProduction |-> 0,
     bonusRebirthPoints |-> bonusPoints,
     luckLevel |-> luck, mysteryBoxes |-> boxes]

\* The game_data posted to save_game: at and just under the rebirth
\* threshold of rebirth counts 0 and 3, with and without boxes, luck and
\* points; negative balances; a game_data with most keys left out; none.
Snapshots ==
    <<GameData(100000, 0, 0, 0, 0, 1),
      GameData(99999, 0, 10, 0, 1, 0),
      GameData(800000, 3, 19, 100, 10, 2),
      GameData(799999, 3, 9, 0, 11, 0),
      GameData(100000, 0, 25, 4900, 2, 0),
      GameData(-1, 0, -1, 0, 0, -1),
      [crystals |-> 250000, priceMine |-> 0, luckLevel |-> 3],
      <<>>>>

\* random.randint(lo, hi), sampled at its two ends
RandInt(lo, hi) == {lo, hi}

\* random.randint(1, 100) against a threshold: both ends and both sides
Rolls == {1, 35, 36, 50, 51, 100}

\* random.randint(100, 1000): both ends and an odd value between
BaseBonuses == RandInt(100, 1000) \cup {555}

BonusTypes == {"click", "production", "points", "luck"}

TimeSteps == {3599, 3600}

-----------------------------------------------------------------------------
(* Spec: one request at a time, each handler one step. *)

\* A request answered: the table, the response and the history kept of it.
Handled(op, id, plan, given) ==
    /\ served < MaxRequests
    /\ served' = served + 1
    /\ db' = IF plan.go THEN Execute(db, id, plan.stmt) ELSE db
    /\ resp' = Answer(op, id, Reply(plan, db', id))
    /\ args' = given
    /\ prev' = db
    /\ prevClaim' = okClaim
    /\ okClaim' = IF op = "claim_luck_bonus" /\ plan.go
                  THEN (id :> now) @@ okClaim ELSE okClaim
    /\ UNCHANGED <<nextId, now, skew, req>>

register(username, password) ==
    LET r == RegisterResult(db, nextId, StoreClock, username, password)
    IN  /\ r.serial <= MaxPlayers + 1
        /\ served < MaxRequests
        /\ served' = served + 1
        /\ db' = r.db
        /\ nextId' = r.serial
        /\ resp' = Answer("register", 0, r.body)
        /\ args' = [username |-> username, password |-> password]
        /\ prev' = db
        /\ prevClaim' = okClaim
        /\ UNCHANGED <<now, skew, okClaim, req>>

save_game(id, snap) ==
    Handled("save_game", id, SavePlan(id, Snapshots[snap]),
            [game_data |-> Snapshots[snap]])

open_mystery_box(id, pick, amount) ==
    Handled("open_mystery_box", id, OpenBoxPlan(db, id, pick, amount),
            [pick |-> pick, amount |-> amount])

claim_luck_bonus(id, base, roll) ==
    Handled("claim_luck_bonus", id,
            ClaimPlan(db, id, now, StoreClock, base, roll),
            [base |-> base, roll |-> roll])

rebirth(id, points, roll) ==
    Handled("rebirth", id, RebirthPlan(db, id, points, roll), [roll |-> roll])

upgrade_rebirth(id, type) ==
    Handled("upgrade_rebirth", id, UpgradePlan(db, id, type), [type |-> type])

\* Variant of Rollback that keeps what the transaction wrote.
NoRollback(written, before) == written

\* conn.rollback(): the table is as it was before the transaction wrote.
Rollback(written, before) == before

\* A handler whose UPDATE or commit raises: the except block rolls back and
\* answers 500.
Aborted(op, id, plan, given) ==
    /\ plan.go
    /\ served < MaxRequests
    /\ served' = served + 1
    /\ db' = Rollback(Execute(db, id, plan.stmt), db)
    /\ resp' = Answer(op, id, Fail(500, MsgStoreError[op]))
    /\ args' = given
    /\ prev' = db
    /\ prevClaim' = okClaim
    /\ UNCHANGED <<nextId, now, skew, okClaim, req>>

\* The points rebirth computes from the row it reads (1 when there is none).
PointsFor(store, id) ==
    IF id \in DOMAIN store
    THEN RebirthPoints(store[id].crystals, store[id].bonusrebirthpoints)
    ELSE {1}

\* A store error in any of the handlers, at one draw of its random numbers.
store_error(id) ==
    \/ \E s \in DOMAIN Snapshots :
          Aborted("save_game", id, SavePlan(id, Snapshots[s]),
                  [game_data |-> Snapshots[s]])
    \/ \E k \in DOMAIN Rewards :
          Aborted("open_mystery_box", id,
                  OpenBoxPlan(db, id, k, Rewards[k].lo),
                  [pick |-> k, amount |-> Rewards[k].lo])
    \/ Aborted("claim_luck_bonus", id,
               ClaimPlan(db, id, now, StoreClock, 100, 1),
               [base |-> 100, roll |-> 1])
    \/ \E points \in PointsFor(db, id) :
          Aborted("rebirth", id, RebirthPlan(db, id, points, 1), [roll |-> 1])
    \/ \E type \in BonusTypes :
          Aborted("upgrade_rebirth", id, UpgradePlan(db, id, type),
                  [type |-> type])

Tick(d) ==
    /\ now + d <= MaxTime
    /\ now' = now + d
    /\ UNCHANGED <<db, nextId, skew, resp, args, prev, okClaim, prevClaim,
                   served, req>>

Idle == [pc |-> "idle"]

Init ==
    /\ db = <<>>
    /\ nextId = 1
    /\ now = 0
    /\ skew = 0
    /\ resp = NoRequest
    /\ args = <<>>
    /\ prev = <<>>
    /\ okClaim = <<>>
    /\ prevClaim = <<>>
    /\ served = 0
    /\ req = [c \in 1..MaxConn |-> Idle]

Next ==
    \/ \E u \in Usernames, p \in Passwords : register(u, p)
    \/ \E id \in UserIds, s \in DOMAIN Snapshots : save_game(id, s)
    \/ \E id \in UserIds, k \in DOMAIN Rewards :
          \E a \in RandInt(Rewards[k].lo, Rewards[k].hi) :
             open_mystery_box(id, k, a)
    \/ \E id \in UserIds, base \in BaseBonuses, roll \in Rolls :
          claim_luck_bonus(id, base, roll)
    \/ \E id \in UserIds, roll \in Rolls :
          \E points \in PointsFor(db, id) : rebirth(id, points, roll)
    \/ \E id \in UserIds, type \in BonusTypes : upgrade_rebirth(id, type)
    \/ \E id \in UserIds : store_error(id)
    \/ \E d \in TimeSteps : Tick(d)

Spec == Init /\ [][Next]_vars


-----------------------------------------------------------------------------
(* SpecConc: requests on separate connections.  A handler's SELECT and     *)
(* the decision on it are one step; its UPDATE, commit and response are a  *)
(* later step, and the store runs the UPDATE on the row as it then is      *)
(* (READ COMMITTED, no SELECT ... FOR UPDATE, no WHERE on the values read).*)
(* save_game is a single UPDATE and register is taken whole.  Of a split   *)
(* request's draws a run keeps the plan they decided, not args.  A run     *)
(* starts with one player registered and saved, and each of its later      *)
(* requests that reads before it writes takes the next connection of the   *)
(* pool.                                                                   *)

Conns == 1..MaxConn

\* The connections between their SELECT and their UPDATE on row id.
InFlight(id) == {c \in Conns : req[c].pc = "update" /\ req[c].id = id}

\* The SELECT of a request on connection c and the decision taken on it.
Select(c, op, id, plan) ==
    /\ req[c].pc = "idle"
    /\ \A d \in Conns : d < c => req[d].pc # "idle"
    /\ served < MaxRequests
    /\ served' = served + 1
    /\ req' = [req EXCEPT ![c] =
                  [pc |-> IF plan.go THEN "update" ELSE "done",
                   op |-> op, id |-> id, plan |-> plan, body |-> plan.body,
                   snapshot |-> db, peers |-> InFlight(id), at |-> now]]
    /\ IF plan.go
       THEN UNCHANGED <<resp, args, prev, prevClaim>>
       ELSE /\ resp' = Answer(op, id, plan.body)
            /\ args' = <<>>
            /\ prev' = db
            /\ prevClaim' = okClaim
    /\ UNCHANGED <<db, nextId, now, skew, okClaim>>

SelectOpenBox(c, id, pick, amount) ==
    Select(c, "open_mystery_box", id, OpenBoxPlan(db, id, pick, amount))

SelectClaim(c, id, base, roll) ==
    Select(c, "claim_luck_bonus", id,
           ClaimPlan(db, id, now, StoreClock, base, roll))

SelectRebirth(c, id, points, roll) ==
    Select(c, "rebirth", id, RebirthPlan(db, id, points, roll))

SelectUpgrade(c, id, type) ==
    Select(c, "upgrade_rebirth", id, UpgradePlan(db, id, type))

\* The UPDATE of the request on connection c, its commit and its response.
Commit(c) ==
    /\ req[c].pc = "update"
    /\ db' = Execute(db, req[c].id, req[c].plan.stmt)
    /\ req' = [req EXCEPT ![c].pc = "done",
                          ![c].body = Reply(req[c].plan, db', req[c].id)]
    /\ resp' = Answer(req[c].op, req[c].id, req'[c].body)
    /\ args' = <<>>
    /\ prev' = db
    /\ prevClaim' = okClaim
    /\ okClaim' = IF req[c].op = "claim_luck_bonus"
                  THEN (req[c].id :> req[c].at) @@ okClaim ELSE okClaim
    /\ UNCHANGED <<nextId, now, skew, served>>

NextConc ==
    \/ \E u \in Usernames, p \in Passwords : register(u, p)
    \/ \E id \in UserIds, s \in DOMAIN Snapshots : save_game(id, s)
    \/ \E c \in Conns, id \in UserIds, k \in DOMAIN Rewards :
          \E a \in RandInt(Rewards[k].lo, Rewards[k].hi) :
             SelectOpenBox(c, id, k, a)
    \/ \E c \in Conns, id \in UserIds, base \in RandInt(100, 1000),
          roll \in Rolls : SelectClaim(c, id, base, roll)
    \/ \E c \in Conns, id \in UserIds, roll \in Rolls :
          \E points \in PointsFor(db, id) : SelectRebirth(c, id, points, roll)
    \/ \E c \in Conns, id \in UserIds, type \in BonusTypes :
          SelectUpgrade(c, id, type)
    \/ \E c \in Conns : Commit(c)
    \/ \E d \in TimeSteps : Tick(d)

\* The table after register and one save_game: a row holding a snapshot.
InitConc ==
    /\ \E s \in DOMAIN Snapshots :
          db = (1 :> SavedRow(DefaultRow(<<"a">>, <<"p">>, 0), Snapshots[s]))
    /\ nextId = 2
    /\ now = 0
    /\ skew = 0
    /\ resp = NoRequest
    /\ args = <<>>
    /\ prev = db
    /\ okClaim = <<>>
    /\ prevClaim = <<>>
    /\ served = 2
    /\ req = [c \in Conns |-> Idle]

SpecConc == InitConc /\ [][NextConc]_vars

-----------------------------------------------------------------------------
(* SpecRank: the leaderboard and stats, queries over the whole table.  A   *)
(* run starts from a table of up to MaxRows players as save_game can leave *)
(* them and asks for leaderboards and stats of it.  The queries name no tie-break, so rows of *)
(* equal value come in an order the store chooses: here by ascending or by *)
(* descending id.  The model's rows carry no NULL, so COALESCE(col, 0) is  *)
(* the column.                                                             *)

Int4Max == 2147483647       \* PostgreSQL INTEGER: -2^31 .. 2^31 - 1

Int4Min == (-Int4Max) - 1

\* An INTEGER expression's result: a value, or "integer out of range"
Int4(v) == [ok |-> TRUE, v |-> v]

Int4Error == [ok |-> FALSE, v |-> 0]

\* column * weight for a positive literal weight
Int4Mul(a, weight) ==
    IF weight = 1
          \/ (a <= Int4Max \div weight /\ a >= -(Int4Max \div weight))
    THEN Int4(a * weight)
    ELSE Int4Error

\* x + y on two INTEGER results
Int4Add(x, y) ==
    IF ~x.ok \/ ~y.ok THEN Int4Error
    ELSE IF y.v >= 0 /\ x.v > Int4Max - y.v THEN Int4Error
    ELSE IF y.v < 0 /\ x.v < Int4Min - y.v THEN Int4Error
    ELSE Int4(x.v + y.v)

\* The nine producer columns, in the order the queries add them
Producers ==
    <<"autoclickers", "factories", "mines", "refineries", "quantumdrills",
      "magicwells", "starforges", "timeaccelerators", "voidharvesters">>

CpsWeights == <<1, 5, 50, 200, 1000, 5000, 25000, 100000, 500000>>

\* The buildings query adds the columns as they are.
BuildingWeights == <<1, 1, 1, 1, 1, 1, 1, 1, 1>>

\* col1 * w1 + col2 * w2 + ... + colk * wk, added from the left
RECURSIVE WeightedSum(_, _, _)
WeightedSum(row, weights, k) ==
    IF k = 1 THEN Int4Mul(row[Producers[1]], weights[1])
    ELSE Int4Add(WeightedSum(row, weights, k - 1),
                 Int4Mul(row[Producers[k]], weights[k]))

LeaderboardLabel ==
    [crystals |-> "Kristaly", cps |-> "CPS", clicks |-> "Celkove kliky",
     buildings |-> "Celkove budovy", rebirth |-> "Rebirthy",
     luck |-> "Luck Level"]

MsgBadLeaderboardType == "Neplatny typ zebricku"

MsgLeaderboardError == "Chyba pri nacitani zebricku"

\* The value expression of the query of each leaderboard type
Score(row, type) ==
    CASE type = "crystals" -> Int4(row.crystals)
      [] type = "cps" -> WeightedSum(row, CpsWeights, Len(Producers))
      [] type = "clicks" -> Int4(row.totalclicks)
      [] type = "buildings" -> WeightedSum(row, BuildingWeights, Len(Producers))
      [] type = "rebirth" -> Int4(row.rebirthcount)
      [] type = "luck" -> Int4(row.lucklevel)

\* Variant of Qualifies that keeps the rows of value 0.
QualifiesFromZero(value) == value >= 0

\* WHERE value > 0
Qualifies(value) == value > 0

LeaderboardLimit == 10      \* LIMIT 10

\* ORDER BY value DESC: row a comes before row b; equal values by id, in
\* the direction sign (1 ascending, -1 descending).
Before(store, type, sign, a, b) ==
    LET va == Score(store[a], type).v
        vb == Score(store[b], type).v
    IN  va > vb \/ (va = vb /\ sign * a < sign * b)

\* The first k rows of ids in that order
RECURSIVE TopRows(_, _, _, _, _)
TopRows(store, type, sign, ids, k) ==
    IF k = 0 \/ ids = {} THEN <<>>
    ELSE LET first == CHOOSE a \in ids :
                         \A b \in ids \ {a} : Before(store, type, sign, a, b)
         IN  <<first>> \o TopRows(store, type, sign, ids \ {first}, k - 1)

\* for i, row in enumerate(results, 1)
Enumerated(store, type, results) ==
    [i \in 1..Len(results) |->
        [rank |-> i,
         username |-> store[results[i]].username,
         value |-> Score(store[results[i]], type).v]]

\* Variant of LeaderboardType that takes an unknown type as the default.
LeaderboardTypeOrDefault(given) ==
    IF Get(given, "type", "crystals") \in DOMAIN LeaderboardLabel
    THEN Get(given, "type", "crystals")
    ELSE "crystals"

\* request.args.get('type', 'crystals')
LeaderboardType(given) == Get(given, "type", "crystals")

\* What leaderboard answers for the query string's parameters
LeaderboardResult(store, given, sign) ==
    LET type == LeaderboardType(given)
    IN  IF type \notin DOMAIN LeaderboardLabel
        THEN Fail(400, MsgBadLeaderboardType)
        ELSE IF \E id \in DOMAIN store : ~Score(store[id], type).ok
        THEN Fail(500, MsgLeaderboardError)
        ELSE LET ids == {id \in DOMAIN store :
                            Qualifies(Score(store[id], type).v)}
                 results == TopRows(store, type, sign, ids, LeaderboardLimit)
             IN  Ok([leaderboard |-> Enumerated(store, type, results),
                     label |-> LeaderboardLabel[type],
                     type |-> type])

leaderboard(given, sign) ==
    /\ resp' = Answer("leaderboard", 0, LeaderboardResult(db, given, sign))
    /\ args' = given
    /\ prev' = db
    /\ UNCHANGED <<db, nextId, now, skew, okClaim, prevClaim, served, req>>

\* Python's x or default on a number: 0 is falsy
Or(value, default) == IF value = 0 THEN default ELSE value

\* Variant of SumColumn that leaves negative values out.
RECURSIVE SumColumnAboveZero(_, _, _)
SumColumnAboveZero(store, col, ids) ==
    IF ids = {} THEN 0
    ELSE LET id == CHOOSE i \in ids : TRUE
         IN  Max(store[id][col], 0)
                + SumColumnAboveZero(store, col, ids \ {id})

\* SELECT COALESCE(SUM(col), 0) over the rows ids
RECURSIVE SumColumn(_, _, _)
SumColumn(store, col, ids) ==
    IF ids = {} THEN 0
    ELSE LET id == CHOOSE i \in ids : TRUE
         IN  store[id][col] + SumColumn(store, col, ids \ {id})

\* What stats answers
StatsResult(store) ==
    LET total(col) == Or(SumColumn(store, col, DOMAIN store), 0)
    IN  Ok([stats |->
              [total_players |-> Cardinality(DOMAIN store),
               total_crystals |-> total("crystals"),
               total_clicks |-> total("totalclicks"),
               total_rebirths |-> total("rebirthcount"),
               total_mystery_boxes |-> total("mysteryboxes")]])

stats ==
    /\ resp' = Answer("stats", 0, StatsResult(db))
    /\ args' = <<>>
    /\ prev' = db
    /\ UNCHANGED <<db, nextId, now, skew, okClaim, prevClaim, served, req>>

\* The query strings asked: each type, none, an empty one, an unknown one
\* and a known one in capitals
LeaderboardQueries ==
    {<<>>, [type |-> "crystals"], [type |-> "cps"], [type |-> "clicks"],
     [type |-> "buildings"], [type |-> "rebirth"], [type |-> "luck"],
     [type |-> ""], [type |-> "gold"], [type |-> "CPS"]}

TieOrders == {1, -1}

Letters == <<"a", "b", "c", "d", "e", "f", "g", "h", "i", "j", "k", "l", "m">>

\* A username for each id
RankName(i) ==
    <<Letters[((i - 1) % Len(Letters)) + 1],
      Letters[(((i - 1) \div Len(Letters)) % Len(Letters)) + 1]>>

\* The game_data the players of a table saved: ten autoclickers; one mine;
\* nothing; every producer; negative counts; and counts whose weighted sum
\* and whose sum pass 2^31 - 1.
RankProfiles ==
    <<[crystals |-> 500, autoclickers |-> 10, totalClicks |-> 7,
       rebirthCount |-> 1, luckLevel |-> 2, mysteryBoxes |-> 2],
      [crystals |-> 900, mines |-> 1, totalClicks |-> 7, luckLevel |-> 1],
      <<>>,
      [crystals |-> 500, autoclickers |-> 3, factories |-> 2, mines |-> 4,
       refineries |-> 1, quantumDrills |-> 1, magicWells |-> 1,
       starForges |-> 1, timeAccelerators |-> 1, voidHarvesters |-> 1,
       rebirthCount |-> 3],
      [crystals |-> -5, autoclickers |-> -3, mines |-> 1],
      [voidHarvesters |-> 4295],
      [autoclickers |-> 2147483647, factories |-> 1]>>

\* The table of n players who saved the first m profiles in turn from k on
RankTable(n, k, m) ==
    IF n = 0 THEN <<>>
    ELSE [id \in 1..n |->
            SavedRow(DefaultRow(RankName(id), <<"p">>, 0),
                     RankProfiles[((id + k) % m) + 1])]

InitRank ==
    /\ \E n \in 0..MaxRows, m \in 1..Len(RankProfiles) :
          \E k \in 0..(m - 1) :
             /\ db = RankTable(n, k, m)
             /\ nextId = n + 1
    /\ now = 0
    /\ skew = 0
    /\ resp = NoRequest
    /\ args = <<>>
    /\ prev = <<>>
    /\ okClaim = <<>>
    /\ prevClaim = <<>>
    /\ served = 0
    /\ req = [c \in 1..MaxConn |-> Idle]

NextRank ==
    \/ \E given \in LeaderboardQueries, sign \in TieOrders :
          leaderboard(given, sign)
    \/ stats

SpecRank == InitRank /\ [][NextRank]_vars

-----------------------------------------------------------------------------
(* SpecLoad: players register, save and load their game back.              *)

\* load_game's game_data: int(row.get(col) or default) for each column
LoadedGame(row) ==
    [crystals |-> Or(row.crystals, 0),
     lifetime_crystals |-> Or(row.lifetime_crystals, 0),
     autoclickers |-> Or(row.autoclickers, 0),
     factories |-> Or(row.factories, 0),
     mines |-> Or(row.mines, 0),
     refineries |-> Or(row.refineries, 0),
     quantumDrills |-> Or(row.quantumdrills, 0),
     magicWells |-> Or(row.magicwells, 0),
     starForges |-> Or(row.starforges, 0),
     timeAccelerators |-> Or(row.timeaccelerators, 0),
     voidHarvesters |-> Or(row.voidharvesters, 0),
     clickPower |-> Or(row.clickpower, 1),
     totalClicks |-> Or(row.totalclicks, 0),
     priceAutoclicker |-> Or(row.priceautoclicker, 5),
     priceFactory |-> Or(row.pricefactory, 50),
     priceMine |-> Or(row.pricemine, 500),
     priceRefinery |-> Or(row.pricerefinery, 5000),
     priceQuantumDrill |-> Or(row.pricequantumdrill, 50000),
     priceMagicWell |-> Or(row.pricemagicwell, 500000),
     priceStarForge |-> Or(row.pricestarforge, 5000000),
     priceTimeAccelerator |-> Or(row.pricetimeaccelerator, 50000000),
     priceVoidHarvester |-> Or(row.pricevoidharvester, 1000000000),
     priceClickPower |-> Or(row.priceclickpower, 20),
     rebirthCount |-> Or(row.rebirthcount, 0),
     rebirthPoints |-> Or(row.rebirthpoints, 0),
     bonusClickPower |-> Or(row.bonusclickpower, 0),
     bonusProduction |-> Or(row.bonusproduction, 0),
     bonusRebirthPoints |-> Or(row.bonusrebirthpoints, 0),
     luckLevel |-> Or(row.lucklevel, 0),
     mysteryBoxes |-> Or(row.mysteryboxes, 0),
     lastLuckBonus |-> row.lastluckbonus]

\* load_game: a SELECT and no UPDATE
LoadPlan(store, id) ==
    IF id = 0 THEN Refuse(Fail(400, MsgMissingUserId))
    ELSE IF id \notin DOMAIN store THEN Refuse(Fail(404, MsgPlayerNotFound))
    ELSE Refuse(Ok([game_data |-> LoadedGame(store[id])]))

load_game(id) == Handled("load_game", id, LoadPlan(db, id), <<>>)

NextLoad ==
    \/ \E u \in Usernames, p \in Passwords : register(u, p)
    \/ \E id \in UserIds, s \in DOMAIN Snapshots : save_game(id, s)
    \/ \E id \in UserIds : load_game(id)

SpecLoad == Init /\ [][NextLoad]_vars

-----------------------------------------------------------------------------
(* SpecReg: registrations on separate connections.  register's checks and  *)
(* its SELECT are one step; its INSERT, commit and response are a later    *)
(* step, and the store checks UNIQUE (username) when the INSERT runs.  A   *)
(* run starts from the empty table or from one registered player.          *)

MsgRegisterError == "Chyba pri registraci"

\* What register answers before its INSERT, or that it goes on to INSERT
RegisterPlan(store, rawUsername, rawPassword) ==
    LET username == Strip(rawUsername)
        password == Strip(rawPassword)
    IN  IF username = <<>> \/ password = <<>>
        THEN Refuse(Fail(400, MsgCredentialsRequired))
        ELSE IF Len(username) > MaxUsernameLen
        THEN Refuse(Fail(400, MsgUsernameTooLong))
        ELSE IF IdsOfUsername(store, username) # {}
        THEN Refuse(Fail(400, MsgUserExists))
        ELSE Proceed([kind |-> "insert", username |-> username,
                      password |-> password],
                     [success |-> TRUE, code |-> 200])

\* Variant of UniqueViolation for a table without the constraint.
NoUniqueViolation(store, username) == FALSE

\* username VARCHAR(255) UNIQUE: the INSERT of a name the table holds raises
UniqueViolation(store, username) == IdsOfUsername(store, username) # {}

RegisterSelect(c, username, password) ==
    LET plan == RegisterPlan(db, username, password)
    IN  /\ req[c].pc = "idle"
        /\ \A d \in Conns : d < c => req[d].pc # "idle"
        /\ req' = [req EXCEPT ![c] =
                      [pc |-> IF plan.go THEN "insert" ELSE "done",
                       op |-> "register", id |-> 0, plan |-> plan,
                       body |-> plan.body, snapshot |-> db,
                       given |-> [username |-> username,
                                  password |-> password]]]
        /\ IF plan.go
           THEN UNCHANGED <<resp, args, prev>>
           ELSE /\ resp' = Answer("register", 0, plan.body)
                /\ args' = [username |-> username, password |-> password]
                /\ prev' = db
        /\ UNCHANGED <<db, nextId, now, skew, okClaim, prevClaim, served>>

\* The INSERT of the request on connection c, its commit and its response.
\* The id comes from the SERIAL's sequence, which a failed INSERT has
\* advanced all the same.
RegisterInsert(c) ==
    LET stmt == req[c].plan.stmt
        raised == UniqueViolation(db, stmt.username)
        body == IF raised THEN Fail(500, MsgRegisterError) ELSE req[c].body
    IN  /\ req[c].pc = "insert"
        /\ db' = IF raised
                 THEN Rollback(db, db)
                 ELSE (nextId :> DefaultRow(stmt.username, stmt.password,
                                            StoreClock)) @@ db
        /\ nextId' = nextId + 1
        /\ req' = [req EXCEPT ![c].pc = "done", ![c].body = body]
        /\ resp' = Answer("register", 0, body)
        /\ args' = req[c].given
        /\ prev' = db
        /\ UNCHANGED <<now, skew, okClaim, prevClaim, served>>

InitReg ==
    /\ \/ db = <<>> /\ nextId = 1
       \/ db = (1 :> DefaultRow(<<"a">>, <<"p">>, 0)) /\ nextId = 2
    /\ now = 0
    /\ skew = 0
    /\ resp = NoRequest
    /\ args = <<>>
    /\ prev = db
    /\ okClaim = <<>>
    /\ prevClaim = <<>>
    /\ served = 0
    /\ req = [c \in Conns |-> Idle]

NextReg ==
    \/ \E c \in Conns, u \in Usernames, p \in Passwords :
          RegisterSelect(c, u, p)
    \/ \E c \in Conns : RegisterInsert(c)

SpecReg == InitReg /\ [][NextReg]_vars

-----------------------------------------------------------------------------
(* SpecFrame: the requests of SpecConc on a table of two players, so that  *)
(* a request on one player interleaves with a request on the other.        *)

\* The snapshots player 1 starts from; player 2 starts from the third.
FrameSnapshots == {1, 3}

InitFrame ==
    /\ \E s \in FrameSnapshots :
          db = <<SavedRow(DefaultRow(<<"a">>, <<"p">>, 0), Snapshots[s]),
                 SavedRow(DefaultRow(<<"b">>, <<"p">>, 0), Snapshots[3])>>
    /\ nextId = 3
    /\ now = 0
    /\ skew = 0
    /\ resp = NoRequest
    /\ args = <<>>
    /\ prev = db
    /\ okClaim = <<>>
    /\ prevClaim = <<>>
    /\ served = 2
    /\ req = [c \in Conns |-> Idle]

\* The requests that name a player, as in NextConc
NextFrame ==
    \/ \E id \in UserIds, s \in DOMAIN Snapshots : save_game(id, s)
    \/ \E c \in Conns, id \in UserIds, k \in DOMAIN Rewards :
          \E a \in RandInt(Rewards[k].lo, Rewards[k].hi) :
             SelectOpenBox(c, id, k, a)
    \/ \E c \in Conns, id \in UserIds, base \in RandInt(100, 1000),
          roll \in Rolls : SelectClaim(c, id, base, roll)
    \/ \E c \in Conns, id \in UserIds, roll \in Rolls :
          \E points \in PointsFor(db, id) : SelectRebirth(c, id, points, roll)
    \/ \E c \in Conns, id \in UserIds, type \in BonusTypes :
          SelectUpgrade(c, id, type)
    \/ \E c \in Conns : Commit(c)
    \/ \E d \in TimeSteps : Tick(d)

SpecFrame == InitFrame /\ [][NextFrame]_vars

-----------------------------------------------------------------------------
(* SpecSkew: claim_luck_bonus when the store's clock, which stamps          *)
(* lastluckbonus, runs a constant offset from the application's clock,     *)
(* which the cooldown check reads.  now is the application's clock.        *)

\* The offsets of the store's clock: a second behind, none, a second ahead
Skews == {-1, 0, 1}

\* The table after register and one save_game, as in SpecConc
InitSkew ==
    /\ now = 0
    /\ skew \in Skews
    /\ \E s \in DOMAIN Snapshots :
          db = (1 :> SavedRow(DefaultRow(<<"a">>, <<"p">>, StoreClock),
                              Snapshots[s]))
    /\ nextId = 2
    /\ resp = NoRequest
    /\ args = <<>>
    /\ prev = db
    /\ okClaim = <<>>
    /\ prevClaim = <<>>
    /\ served = 2
    /\ req = [c \in Conns |-> Idle]

NextSkew ==
    \/ \E id \in UserIds, base \in BaseBonuses, roll \in Rolls :
          claim_luck_bonus(id, base, roll)
    \/ \E d \in TimeSteps : Tick(d)

SpecSkew == InitSkew /\ [][NextSkew]_vars

-----------------------------------------------------------------------------
(* Properties.  In Spec, resp is the last response, prev the table as the  *)
(* request found it and db the table as the request left it.  In SpecConc  *)
(* req[c] keeps each request with the table its SELECT read (snapshot) and *)
(* the requests on the same row then between SELECT and UPDATE (peers).    *)

\* Requests a and b of one kind on one row, both answered, b having read
\* the row while a was between its SELECT and its UPDATE.
Raced(a, b, op) ==
    /\ a # b
    /\ req[a].pc = "done" /\ req[b].pc = "done"
    /\ req[a].op = op /\ req[b].op = op
    /\ req[a].id = req[b].id
    /\ a \in req[b].peers

\* C1: of two interleaved rebirth requests on a player whose crystals reach
\* the threshold 100000 * 2^rebirthCount, exactly one succeeds, the other
\* fails for want of crystals, and the rebirth count answered is the count
\* read plus one.
C1_OneRebirthWins ==
    \A a, b \in Conns :
        Raced(a, b, "rebirth") =>
            LET row == req[a].snapshot[req[a].id]
            IN  row.crystals >= 100000 * (2 ^ row.rebirthcount) =>
                    /\ req[a].body.success # req[b].body.success
                    /\ \A c \in {a, b} :
                          IF req[c].body.success
                          THEN req[c].body.rebirthCount = row.rebirthcount + 1
                          ELSE req[c].body.message = MsgNeedCrystals

\* C2: of interleaved open_mystery_box requests on a player holding n boxes
\* at most n succeed, and mysteryboxes is not below 0 once they are
\* answered.
C2_BoxOpenedOnce ==
    /\ \A a, b \in Conns :
          (Raced(a, b, "open_mystery_box")
              /\ req[a].body.success /\ req[b].body.success) =>
                 req[a].snapshot[req[a].id].mysteryboxes >= 2
    /\ \A a, b \in Conns :
          Raced(a, b, "open_mystery_box") => db[req[a].id].mysteryboxes >= 0

\* C3: two claim_luck_bonus requests of one player that both succeed lie at
\* least 3600 seconds apart, however they interleave.
C3_OneClaimPerWindow ==
    \A a, b \in Conns :
        (/\ a # b
         /\ req[a].pc = "done" /\ req[b].pc = "done"
         /\ req[a].op = "claim_luck_bonus" /\ req[b].op = "claim_luck_bonus"
         /\ req[a].id = req[b].id
         /\ req[a].body.success /\ req[b].body.success
         /\ req[a].at <= req[b].at) =>
            req[b].at - req[a].at >= 3600

\* C4: crystals, rebirthpoints and mysteryboxes of every player are at least
\* 0 in every state, whatever sequence of save_game, rebirth, upgrade_rebirth,
\* open_mystery_box and claim_luck_bonus led to it.
C4_BalancesNonNegative ==
    \A id \in DOMAIN db :
        /\ db[id].crystals >= 0
        /\ db[id].rebirthpoints >= 0
        /\ db[id].mysteryboxes >= 0

\* C5: rebirth on an existing player with rebirth count n succeeds exactly
\* when crystals >= 100000 * 2^n (100000 for n = 0, 800000 for n = 3); below
\* that it answers 400 with the required amount and the table is unchanged.
\* (A request the store failed, answered 500, is the matter of C14.)
C5_RebirthThreshold ==
    (/\ resp.op = "rebirth"
     /\ resp.id \in DOMAIN prev
     /\ resp.body.code # 500) =>
        LET row == prev[resp.id]
            required == 100000 * (2 ^ row.rebirthcount)
        IN  /\ resp.body.success <=> row.crystals >= required
            /\ row.rebirthcount = 0 => required = 100000
            /\ row.rebirthcount = 3 => required = 800000
            /\ ~resp.body.success =>
                  /\ resp.body.code = 400
                  /\ resp.body.message = MsgNeedCrystals
                  /\ resp.body.required = required
                  /\ db = prev

\* C5 witness: a rebirth refused one crystal under the threshold of n = 3
C5_Witness ==
    /\ resp.op = "rebirth" /\ resp.id \in DOMAIN prev
    /\ ~resp.body.success
    /\ prev[resp.id].rebirthcount = 3
    /\ prev[resp.id].crystals = 799999

Range(seq) == {seq[i] : i \in DOMAIN seq}

\* C6: a successful rebirth leaves crystals 0, the nine producer counts 0,
\* every price at its base price and clickpower 1; rebirthcount grows by 1,
\* rebirthpoints by gainedPoints, lucklevel by luckGained in {0, 1}, none of
\* them decreasing; every other column of the row, and every other row, is
\* as it was.
C6_RebirthEffects ==
    (resp.op = "rebirth" /\ resp.body.success) =>
        LET old == prev[resp.id]
            new == db[resp.id]
            reset == Range(ProducerColumns) \cup Range(PriceColumns)
                        \cup {"crystals", "clickpower"}
            grown == {"rebirthcount", "rebirthpoints", "lucklevel"}
        IN  /\ new.crystals = 0
            /\ \A col \in Range(ProducerColumns) : new[col] = 0
            /\ \A col \in Range(PriceColumns) : new[col] = BasePrice[col]
            /\ new.clickpower = 1
            /\ new.rebirthcount = old.rebirthcount + 1
            /\ new.rebirthpoints = old.rebirthpoints + resp.body.gainedPoints
            /\ new.lucklevel = old.lucklevel + resp.body.luckGained
            /\ resp.body.luckGained \in {0, 1}
            /\ \A col \in grown : new[col] >= old[col]
            /\ {"mysteryboxes", "bonusclickpower", "bonusproduction",
                "bonusrebirthpoints", "lifetime_crystals", "totalclicks",
                "lastluckbonus"} \subseteq (DOMAIN old) \ (reset \cup grown)
            /\ \A col \in (DOMAIN old) \ (reset \cup grown) :
                  new[col] = old[col]
            /\ DOMAIN db = DOMAIN prev
            /\ \A id \in DOMAIN db \ {resp.id} : db[id] = prev[id]

\* C6 witness: a rebirth that gained a luck level, of a player who held
\* producers, a raised click power and price, boxes and bonuses
C6_Witness ==
    /\ resp.op = "rebirth" /\ resp.body.success
    /\ resp.body.luckGained = 1
    /\ prev[resp.id].autoclickers > 0
    /\ prev[resp.id].clickpower > 1
    /\ prev[resp.id].pricevoidharvester > BasePrice.pricevoidharvester
    /\ prev[resp.id].mysteryboxes > 0
    /\ prev[resp.id].bonusrebirthpoints > 0

\* max(1, floor((log10(c) + c / 1000000) * (1 + b / 100))) over the reals:
\* the one value when c is a power of ten, where every term is rational, and
\* else the values the tenths around log10(c) leave open.
ExactPoints(c, b) ==
    IF IsPowerOfTen(c)
    THEN {Max(1, Scaled(Log10Floor(c) * 1000000 + c, 100 + b).q)}
    ELSE {Max(1, g) : g \in BracketFloors(c, b)}

\* C7: a successful rebirth on crystals c and bonusrebirthpoints b >= 0
\* gains at least 1 point, gains max(1, floor((log10(c) + c / 1000000) *
\* (1 + b / 100))), and answers as gainedPoints the growth of the stored
\* rebirthpoints.
C7_GainedPoints ==
    (resp.op = "rebirth" /\ resp.body.success) =>
        LET old == prev[resp.id]
            gained == resp.body.gainedPoints
        IN  /\ db[resp.id].rebirthpoints - old.rebirthpoints = gained
            /\ old.bonusrebirthpoints >= 0 =>
                  /\ gained >= 1
                  /\ gained \in ExactPoints(old.crystals, old.bonusrebirthpoints)

\* C8: after a successful claim_luck_bonus at time t by a player with luck
\* level >= 1, a claim before t + 3600 answers 400 with the cooldown message
\* and leaves the table unchanged, and a claim at or after t + 3600 succeeds.
\* (A request the store failed, answered 500, is the matter of C14.)
C8_Cooldown ==
    (/\ resp.op = "claim_luck_bonus"
     /\ resp.id \in DOMAIN prevClaim
     /\ resp.id \in DOMAIN prev
     /\ prev[resp.id].lucklevel >= 1
     /\ resp.body.code # 500) =>
        IF resp.at < prevClaim[resp.id] + 3600
        THEN /\ ~resp.body.success
             /\ resp.body.code = 400
             /\ resp.body.message = MsgCooldown
             /\ db = prev
        ELSE resp.body.success

\* C8 witness: a claim exactly 3600 seconds after the last successful one
C8_Witness ==
    /\ resp.op = "claim_luck_bonus"
    /\ resp.id \in DOMAIN prevClaim
    /\ prev[resp.id].lucklevel >= 1
    /\ resp.at = prevClaim[resp.id] + 3600
    /\ resp.body.success

\* C9: open_mystery_box on a player with mysteryboxes <= 0 answers 400 with
\* the no-boxes message and changes none of crystals, clickpower and
\* mysteryboxes.
C9_NoBoxes ==
    (/\ resp.op = "open_mystery_box"
     /\ resp.id \in DOMAIN prev
     /\ prev[resp.id].mysteryboxes <= 0) =>
        /\ ~resp.body.success
        /\ resp.body.code = 400
        /\ resp.body.message = MsgNoBoxes
        /\ db[resp.id].crystals = prev[resp.id].crystals
        /\ db[resp.id].clickpower = prev[resp.id].clickpower
        /\ db[resp.id].mysteryboxes = prev[resp.id].mysteryboxes

\* C9 witness: a box opened by a player who has crystals and no box
C9_Witness ==
    /\ resp.op = "open_mystery_box"
    /\ resp.id \in DOMAIN prev
    /\ prev[resp.id].mysteryboxes = 0
    /\ prev[resp.id].crystals > 0
    /\ ~resp.body.success

\* C10: open_mystery_box on an id without a row answers 404 with the
\* player-not-found message, which is not the answer a player with no boxes
\* gets.
C10_UnknownPlayer ==
    (/\ resp.op = "open_mystery_box"
     /\ resp.id # 0
     /\ resp.id \notin DOMAIN prev) =>
        /\ resp.body.code = 404
        /\ resp.body.message = MsgPlayerNotFound
        /\ resp.body.message # MsgNoBoxes

\* C11: save_game on an id without a row is refused as not found, not
\* acknowledged, and the table is unchanged.
C11_SaveUnknownPlayer ==
    (/\ resp.op = "save_game"
     /\ resp.id # 0
     /\ resp.id \notin DOMAIN prev
     /\ resp.body.code # 500) =>
        /\ ~resp.body.success
        /\ resp.body.code = 404
        /\ db = prev

\* C12: no request lowers a player's lifetime_crystals or totalclicks.
C12_LifetimeMonotone ==
    \A id \in DOMAIN prev \cap DOMAIN db :
        /\ db[id].lifetime_crystals >= prev[id].lifetime_crystals
        /\ db[id].totalclicks >= prev[id].totalclicks

\* C13: however requests interleave, no step moves a player's lastluckbonus
\* to an earlier time, and only a successful claim_luck_bonus changes it.
C13_LastBonusForward ==
    \A id \in DOMAIN prev \cap DOMAIN db :
        /\ db[id].lastluckbonus >= prev[id].lastluckbonus
        /\ db[id].lastluckbonus # prev[id].lastluckbonus =>
              /\ resp.op = "claim_luck_bonus"
              /\ resp.id = id
              /\ resp.body.success

\* C14: after a request answered with a failure, a store error in the
\* middle of the handler included, the table is as it was before the request.
C14_FailureChangesNothing ==
    (resp.op # "none" /\ ~resp.body.success) => db = prev

\* C14 witness: a rebirth that met its threshold and whose UPDATE raised
C14_Witness ==
    /\ resp.op = "rebirth"
    /\ resp.body.code = 500
    /\ resp.id \in DOMAIN prev
    /\ prev[resp.id].crystals >= 100000 * (2 ^ prev[resp.id].rebirthcount)
    /\ prev[resp.id].autoclickers > 0

\* C15: upgrade_rebirth with a type of click, production or points, on a
\* player with fewer than 10 rebirthpoints, answers 400 with the cost and
\* changes nothing; otherwise it takes exactly 10 rebirthpoints, adds 100 to
\* the bonus column of that type and to nothing else, and answers the new
\* bonus value and the points left.  Any other type answers 400 for a bad
\* type and changes nothing.
C15_Upgrade ==
    (resp.op = "upgrade_rebirth" /\ resp.id # 0 /\ resp.body.code # 500) =>
        IF args.type \notin {"click", "production", "points"}
        THEN /\ ~resp.body.success
             /\ resp.body.code = 400
             /\ resp.body.message = MsgBadBonusType
             /\ db = prev
        ELSE resp.id \in DOMAIN prev =>
             LET old == prev[resp.id]
                 new == db[resp.id]
                 col == CASE args.type = "click" -> "bonusclickpower"
                          [] args.type = "production" -> "bonusproduction"
                          [] args.type = "points" -> "bonusrebirthpoints"
             IN  IF old.rebirthpoints < 10
                 THEN /\ ~resp.body.success
                      /\ resp.body.code = 400
                      /\ resp.body.message = MsgNeedPoints
                      /\ resp.body.cost = 10
                      /\ db = prev
                 ELSE /\ resp.body.success
                      /\ new.rebirthpoints = old.rebirthpoints - 10
                      /\ new[col] = old[col] + 100
                      /\ \A other \in (DOMAIN old) \ {col, "rebirthpoints"} :
                            new[other] = old[other]
                      /\ DOMAIN db = DOMAIN prev
                      /\ \A id \in DOMAIN db \ {resp.id} : db[id] = prev[id]
                      /\ resp.body.newValue = old[col] + 100
                      /\ resp.body.remainingPoints = old.rebirthpoints - 10

\* C15 witness: an upgrade of the production bonus paid with exactly the 10
\* points the player had
C15_Witness ==
    /\ resp.op = "upgrade_rebirth"
    /\ resp.body.success
    /\ args.type = "production"
    /\ prev[resp.id].rebirthpoints = 10
    /\ prev[resp.id].bonusclickpower > 0

\* C16: a successful open_mystery_box takes exactly 1 from mysteryboxes and
\* changes exactly one other column: crystals grows by the reward's amount,
\* in 1000..50000 or 10000..100000 for a crystals reward and 50000..200000
\* for a production boost, or clickpower grows by an amount in 1..5; the
\* reward answered is the one applied.
C16_BoxReward ==
    (resp.op = "open_mystery_box" /\ resp.body.success) =>
        LET old == prev[resp.id]
            new == db[resp.id]
            reward == resp.body.reward
            paid == IF reward.type = "click_power" THEN "clickpower"
                    ELSE "crystals"
        IN  /\ new.mysteryboxes = old.mysteryboxes - 1
            /\ reward.type \in {"crystals", "production_boost", "click_power"}
            /\ reward.type = "crystals" =>
                  reward.amount \in 1000..50000 \/ reward.amount \in 10000..100000
            /\ reward.type = "production_boost" =>
                  reward.amount \in 50000..200000
            /\ reward.type = "click_power" => reward.amount \in 1..5
            /\ new[paid] = old[paid] + reward.amount
            /\ \A col \in (DOMAIN old) \ {paid, "mysteryboxes"} :
                  new[col] = old[col]
            /\ \A id \in DOMAIN db \ {resp.id} : db[id] = prev[id]

\* C16 witness: a box that paid 5 click power to a player with crystals
C16_Witness ==
    /\ resp.op = "open_mystery_box"
    /\ resp.body.success
    /\ resp.body.reward.type = "click_power"
    /\ resp.body.reward.amount = 5
    /\ prev[resp.id].crystals > 0

\* C17: a successful claim_luck_bonus at luck level L >= 1 adds to crystals
\* exactly floor(base * (1 + L / 2)) for the base drawn in 100..1000, which
\* lies between 100 + 50 L and 1000 + 500 L, adds 0 or 1 to mysteryboxes,
\* sets lastluckbonus to the time of the request, changes no other column
\* and answers the bonus added.
C17_LuckBonus ==
    (resp.op = "claim_luck_bonus" /\ resp.body.success) =>
        LET old == prev[resp.id]
            new == db[resp.id]
            L == old.lucklevel
            total == resp.body.bonus
        IN  /\ L >= 1
            /\ args.base \in 100..1000
            /\ 2 * total <= args.base * (2 + L)
            /\ args.base * (2 + L) < 2 * total + 2
            /\ 100 + 50 * L <= total /\ total <= 1000 + 500 * L
            /\ new.crystals = old.crystals + total
            /\ new.mysteryboxes - old.mysteryboxes \in {0, 1}
            /\ new.lastluckbonus = resp.at
            /\ \A col \in (DOMAIN old)
                            \ {"crystals", "mysteryboxes", "lastluckbonus"} :
                  new[col] = old[col]
            /\ \A id \in DOMAIN db \ {resp.id} : db[id] = prev[id]

\* C17 witness: a claim whose base times multiplier is not a whole number
C17_Witness ==
    /\ resp.op = "claim_luck_bonus"
    /\ resp.body.success
    /\ (args.base * (2 + prev[resp.id].lucklevel)) % 2 = 1
    /\ resp.at > 0

\* C18: in a successful claim_luck_bonus the box is granted exactly when the
\* integer drawn in 1..100 is at most min(5 L, 50): from luck level 10 on a
\* draw above 50 grants none; got_mystery_box is answered true exactly when
\* mysteryboxes grew by 1, and otherwise mysteryboxes is unchanged.
C18_BoxChance ==
    (resp.op = "claim_luck_bonus" /\ resp.body.success) =>
        LET old == prev[resp.id]
            new == db[resp.id]
            L == old.lucklevel
            chance == IF 5 * L < 50 THEN 5 * L ELSE 50
            got == resp.body.got_mystery_box
        IN  /\ args.roll \in 1..100
            /\ got <=> args.roll <= chance
            /\ (L >= 10 /\ args.roll > 50) => ~got
            /\ got <=> new.mysteryboxes = old.mysteryboxes + 1
            /\ ~got => new.mysteryboxes = old.mysteryboxes

\* C18 witness: luck level above 10, draw 51, no box
C18_Witness ==
    /\ resp.op = "claim_luck_bonus"
    /\ resp.body.success
    /\ prev[resp.id].lucklevel > 10
    /\ args.roll = 51
    /\ ~resp.body.got_mystery_box

\* C19: a leaderboard answered for a valid type lists only players whose
\* value is above 0, in order of value from the highest down, at most 10 of
\* them and then the 10 of highest value, with ranks 1, 2, ..., k in the
\* order of the list.
C19_RankedList ==
    (resp.op = "leaderboard" /\ resp.body.success) =>
        LET list == resp.body.leaderboard
            type == resp.body.type
            named == {list[i].username : i \in DOMAIN list}
            positive == {id \in DOMAIN db : Score(db[id], type).v > 0}
        IN  /\ DOMAIN list = 1..Cardinality(DOMAIN list)
            /\ Cardinality(DOMAIN list) <= 10
            /\ Cardinality(DOMAIN list) = Min(10, Cardinality(positive))
            /\ \A i \in DOMAIN list :
                  /\ list[i].rank = i
                  /\ list[i].value > 0
                  /\ \E id \in positive :
                        /\ db[id].username = list[i].username
                        /\ Score(db[id], type).v = list[i].value
            /\ \A i, j \in DOMAIN list :
                  i < j => /\ list[i].value >= list[j].value
                           /\ list[i].username # list[j].username
            /\ \A id \in positive :
                  db[id].username \notin named =>
                     \A i \in DOMAIN list :
                        list[i].value >= Score(db[id], type).v

\* C19 witness: more than 10 players qualify, the values listed differ and
\* a player left out has the value of the last one listed
C19_Witness ==
    /\ resp.op = "leaderboard"
    /\ resp.body.success
    /\ Cardinality(DOMAIN resp.body.leaderboard) = 10
    /\ resp.body.leaderboard[1].value > resp.body.leaderboard[10].value
    /\ \E id \in DOMAIN db :
          /\ \A i \in 1..10 :
                resp.body.leaderboard[i].username # db[id].username
          /\ Score(db[id], resp.body.type).v = resp.body.leaderboard[10].value
    /\ \E id \in DOMAIN db : Score(db[id], resp.body.type).v <= 0

\* C20: a leaderboard asked for a valid type is answered with a list, and
\* the value listed for a player is crystals, totalclicks, rebirthcount or
\* lucklevel, the sum of the nine producer counts for buildings, and for cps
\* the counts weighted by 1, 5, 50, 200, 1000, 5000, 25000, 100000, 500000;
\* in cps a player with one mine comes before one with ten autoclickers.
C20_Scores ==
    (/\ resp.op = "leaderboard"
     /\ Get(args, "type", "crystals")
           \in {"crystals", "cps", "clicks", "buildings", "rebirth", "luck"}) =>
        /\ resp.body.success
        /\ LET list == resp.body.leaderboard
               type == Get(args, "type", "crystals")
               row(i) == db[CHOOSE id \in DOMAIN db :
                               db[id].username = list[i].username]
               buildings(r) ==
                  r.autoclickers + r.factories + r.mines + r.refineries
                     + r.quantumdrills + r.magicwells + r.starforges
                     + r.timeaccelerators + r.voidharvesters
               cps(r) ==
                  r.autoclickers + 5 * r.factories + 50 * r.mines
                     + 200 * r.refineries + 1000 * r.quantumdrills
                     + 5000 * r.magicwells + 25000 * r.starforges
                     + 100000 * r.timeaccelerators + 500000 * r.voidharvesters
           IN  /\ \A i \in DOMAIN list :
                     list[i].value =
                        CASE type = "crystals" -> row(i).crystals
                          [] type = "clicks" -> row(i).totalclicks
                          [] type = "rebirth" -> row(i).rebirthcount
                          [] type = "luck" -> row(i).lucklevel
                          [] type = "buildings" -> buildings(row(i))
                          [] type = "cps" -> cps(row(i))
               /\ type = "cps" =>
                     \A i, j \in DOMAIN list :
                        (/\ buildings(row(i)) = 1 /\ row(i).mines = 1
                         /\ buildings(row(j)) = 10 /\ row(j).autoclickers = 10)
                           => i < j

\* C21: a leaderboard asked with a type other than crystals, cps, clicks,
\* buildings, rebirth and luck is refused with 400 and the invalid-type
\* message, and the answer carries no list.
C21_InvalidType ==
    (/\ resp.op = "leaderboard"
     /\ "type" \in DOMAIN args
     /\ args.type
           \notin {"crystals", "cps", "clicks", "buildings", "rebirth", "luck"}) =>
        /\ ~resp.body.success
        /\ resp.body.code = 400
        /\ resp.body.message = MsgBadLeaderboardType
        /\ "leaderboard" \notin DOMAIN resp.body

\* C21 witness: an unknown type asked of a table with a player who would
\* be listed
C21_Witness ==
    /\ resp.op = "leaderboard"
    /\ "type" \in DOMAIN args
    /\ args.type = "gold"
    /\ \E id \in DOMAIN db : db[id].crystals > 0

\* C28: two leaderboards asked with the same parameters of the same table
\* are answered alike, the same entries in the same order, also when
\* players have equal values and more than 10 tie at the cut.
C28_SameListTwice ==
    [][(/\ resp.op = "leaderboard"
        /\ resp'.op = "leaderboard"
        /\ args' = args
        /\ db' = db) => resp'.body = resp.body]_vars

\* C23: stats succeeds and answers the number of rows and the sums of
\* crystals, totalclicks, rebirthcount and mysteryboxes over all rows; of an
\* empty table it answers 0 five times.
C23_Stats ==
    resp.op = "stats" =>
        LET n == Cardinality(DOMAIN db)
            crystals[i \in 0..n] ==
               IF i = 0 THEN 0 ELSE crystals[i - 1] + db[i].crystals
            clicks[i \in 0..n] ==
               IF i = 0 THEN 0 ELSE clicks[i - 1] + db[i].totalclicks
            rebirths[i \in 0..n] ==
               IF i = 0 THEN 0 ELSE rebirths[i - 1] + db[i].rebirthcount
            boxes[i \in 0..n] ==
               IF i = 0 THEN 0 ELSE boxes[i - 1] + db[i].mysteryboxes
        IN  /\ resp.body.success
            /\ DOMAIN db = 1..n
            /\ resp.body.stats =
                  [total_players |-> n,
                   total_crystals |-> crystals[n],
                   total_clicks |-> clicks[n],
                   total_rebirths |-> rebirths[n],
                   total_mystery_boxes |-> boxes[n]]
            /\ n = 0 =>
                  resp.body.stats =
                     [total_players |-> 0, total_crystals |-> 0,
                      total_clicks |-> 0, total_rebirths |-> 0,
                      total_mystery_boxes |-> 0]

\* C23 witness: stats of several players, one of them with negative
\* crystals, with boxes and rebirths among them
C23_Witness ==
    /\ resp.op = "stats"
    /\ resp.body.stats.total_players >= 5
    /\ \E id \in DOMAIN db : db[id].crystals < 0
    /\ resp.body.stats.total_mystery_boxes > 0
    /\ resp.body.stats.total_rebirths > 0

\* C24: load_game on an existing player answers the row as stored: each
\* numeric field of game_data equals the column the last write left, a
\* stored price of 0 included.
C24_LoadReturnsStored ==
    (resp.op = "load_game" /\ resp.body.success) =>
        LET row == db[resp.id]
            game == resp.body.game_data
            fields ==
               {<<"crystals", "crystals">>,
                <<"lifetime_crystals", "lifetime_crystals">>,
                <<"autoclickers", "autoclickers">>,
                <<"factories", "factories">>, <<"mines", "mines">>,
                <<"refineries", "refineries">>,
                <<"quantumDrills", "quantumdrills">>,
                <<"magicWells", "magicwells">>,
                <<"starForges", "starforges">>,
                <<"timeAccelerators", "timeaccelerators">>,
                <<"voidHarvesters", "voidharvesters">>,
                <<"clickPower", "clickpower">>,
                <<"totalClicks", "totalclicks">>,
                <<"priceAutoclicker", "priceautoclicker">>,
                <<"priceFactory", "pricefactory">>,
                <<"priceMine", "pricemine">>,
                <<"priceRefinery", "pricerefinery">>,
                <<"priceQuantumDrill", "pricequantumdrill">>,
                <<"priceMagicWell", "pricemagicwell">>,
                <<"priceStarForge", "pricestarforge">>,
                <<"priceTimeAccelerator", "pricetimeaccelerator">>,
                <<"priceVoidHarvester", "pricevoidharvester">>,
                <<"priceClickPower", "priceclickpower">>,
                <<"rebirthCount", "rebirthcount">>,
                <<"rebirthPoints", "rebirthpoints">>,
                <<"bonusClickPower", "bonusclickpower">>,
                <<"bonusProduction", "bonusproduction">>,
                <<"bonusRebirthPoints", "bonusrebirthpoints">>,
                <<"luckLevel", "lucklevel">>,
                <<"mysteryBoxes", "mysteryboxes">>}
        IN  \A f \in fields : game[f[1]] = row[f[2]]

\* C22: a register whose username, stripped, is held by a row when the
\* request reads the table is refused with 400 and the user-exists message;
\* no failed register changes the table; and in every state, also after
\* two registers of one username on separate connections, no two rows hold
\* the same username.
C22_UniqueUsernames ==
    /\ \A i, j \in DOMAIN db : i # j => db[i].username # db[j].username
    /\ \A c \in Conns :
          (/\ req[c].pc = "done"
           /\ Strip(req[c].given.password) # <<>>
           /\ \E i \in DOMAIN req[c].snapshot :
                 req[c].snapshot[i].username = Strip(req[c].given.username))
             => req[c].body = Fail(400, MsgUserExists)
    /\ (resp.op = "register" /\ ~resp.body.success) => db = prev

\* C22 witness: two registers of one username both passed the SELECT; one
\* has its row and the other was failed by the store
C22_Witness ==
    \E a, b \in Conns :
        /\ a # b
        /\ req[a].pc = "done" /\ req[b].pc = "done"
        /\ req[a].plan.go /\ req[b].plan.go
        /\ req[a].plan.stmt.username = req[b].plan.stmt.username
        /\ req[a].body.success
        /\ ~req[b].body.success

\* C25: a successful rebirth zeroes the crystals it read: the row its
\* UPDATE resets holds the crystals of the row its SELECT returned, no write
\* of another request on the player having come between the two.
C25_RebirthAtomic ==
    (resp.op = "rebirth" /\ resp.body.success) =>
        \A c \in Conns :
            (/\ req[c].pc = "done"
             /\ req[c].op = "rebirth"
             /\ req[c].id = resp.id
             /\ req[c].body = resp.body) =>
                prev[resp.id].crystals = req[c].snapshot[resp.id].crystals

\* C26: of two interleaved upgrade_rebirth requests of a valid type on a
\* player holding 10 to 19 rebirth points exactly one succeeds and the other is refused for
\* want of points; rebirthpoints is not below 0 once they are answered and
\* the four bonus columns have grown by 100 in all.
C26_OneUpgradeWins ==
    \A a, b \in Conns :
        (/\ Raced(a, b, "upgrade_rebirth")
         /\ req[a].snapshot[req[a].id].rebirthpoints \in 10..19
         /\ req[b].snapshot = req[a].snapshot
         /\ \A c \in {a, b} :
               req[c].plan.go \/ req[c].body.message # MsgBadBonusType) =>
            LET old == req[a].snapshot[req[a].id]
                new == db[req[a].id]
                bonuses(row) ==
                   row.bonusclickpower + row.bonusproduction
                      + row.bonusrebirthpoints + row.lucklevel
            IN  /\ req[a].body.success # req[b].body.success
                /\ \A c \in {a, b} :
                      ~req[c].body.success =>
                         req[c].body.message = MsgNeedPoints
                /\ new.rebirthpoints >= 0
                /\ bonuses(new) = bonuses(old) + 100

\* C27: a request on player A, however it interleaves with requests on
\* other players, leaves every other player's row as it was, and what it
\* decides is what the handler decides on a table holding A's row alone.
C27_OtherPlayersUntouched ==
    /\ (resp.op # "none" /\ resp.op # "register") =>
          /\ DOMAIN db = DOMAIN prev
          /\ \A B \in DOMAIN prev \ {resp.id} : db[B] = prev[B]
    /\ \A c \in Conns :
          req[c].pc # "idle" =>
             LET A == req[c].id
                 at == req[c].at
                 alone == IF A \in DOMAIN req[c].snapshot
                          THEN (A :> req[c].snapshot[A]) ELSE <<>>
             IN  req[c].plan \in
                    CASE req[c].op = "open_mystery_box" ->
                            UNION {{OpenBoxPlan(alone, A, k, a) :
                                       a \in RandInt(Rewards[k].lo,
                                                     Rewards[k].hi)} :
                                   k \in DOMAIN Rewards}
                      [] req[c].op = "claim_luck_bonus" ->
                            {ClaimPlan(alone, A, at, at, base, roll) :
                                base \in RandInt(100, 1000), roll \in Rolls}
                      [] req[c].op = "rebirth" ->
                            UNION {{RebirthPlan(alone, A, points, roll) :
                                       points \in PointsFor(alone, A)} :
                                   roll \in Rolls}
                      [] req[c].op = "upgrade_rebirth" ->
                            {UpgradePlan(alone, A, type) : type \in BonusTypes}

\* C27 witness: requests on the two players, both read before either wrote,
\* both answered with success
C27_Witness ==
    \E a, b \in Conns :
        /\ req[a].pc = "done" /\ req[b].pc = "done"
        /\ req[a].id = 1 /\ req[b].id = 2
        /\ req[a].snapshot = req[b].snapshot
        /\ req[a].body.success /\ req[b].body.success
        /\ db[1] # req[a].snapshot[1]
        /\ db[2] # req[a].snapshot[2]

\* C29: a save_game answered with success on an existing player leaves the
\* ids, username, password and lastluckbonus as they were and sets every
\* other game column: to the posted value where game_data names the key,
\* and where it does not to the default (0, 1 for clickpower, the base
\* price for a price), not to the stored value.
C29_SaveOverwrites ==
    (/\ resp.op = "save_game"
     /\ resp.body.success
     /\ resp.id \in DOMAIN prev) =>
        LET old == prev[resp.id]
            new == db[resp.id]
            gd == args.game_data
            columns ==
               {<<"crystals", "crystals", 0>>,
                <<"lifetime_crystals", "lifetime_crystals", 0>>,
                <<"autoclickers", "autoclickers", 0>>,
                <<"factories", "factories", 0>>,
                <<"mines", "mines", 0>>,
                <<"refineries", "refineries", 0>>,
                <<"quantumDrills", "quantumdrills", 0>>,
                <<"magicWells", "magicwells", 0>>,
                <<"starForges", "starforges", 0>>,
                <<"timeAccelerators", "timeaccelerators", 0>>,
                <<"voidHarvesters", "voidharvesters", 0>>,
                <<"clickPower", "clickpower", 1>>,
                <<"totalClicks", "totalclicks", 0>>,
                <<"priceAutoclicker", "priceautoclicker", 5>>,
                <<"priceFactory", "pricefactory", 50>>,
                <<"priceMine", "pricemine", 500>>,
                <<"priceRefinery", "pricerefinery", 5000>>,
                <<"priceQuantumDrill", "pricequantumdrill", 50000>>,
                <<"priceMagicWell", "pricemagicwell", 500000>>,
                <<"priceStarForge", "pricestarforge", 5000000>>,
                <<"priceTimeAccelerator", "pricetimeaccelerator", 50000000>>,
                <<"priceVoidHarvester", "pricevoidharvester", 1000000000>>,
                <<"priceClickPower", "priceclickpower", 20>>,
                <<"rebirthCount", "rebirthcount", 0>>,
                <<"rebirthPoints", "rebirthpoints", 0>>,
                <<"bonusClickPower", "bonusclickpower", 0>>,
                <<"bonusProduction", "bonusproduction", 0>>,
                <<"bonusRebirthPoints", "bonusrebirthpoints", 0>>,
                <<"luckLevel", "lucklevel", 0>>,
                <<"mysteryBoxes", "mysteryboxes", 0>>}
        IN  /\ DOMAIN db = DOMAIN prev
            /\ new.username = old.username
            /\ new.password = old.password
            /\ new.lastluckbonus = old.lastluckbonus
            /\ \A f \in columns :
                  new[f[2]] = IF f[1] \in DOMAIN gd THEN gd[f[1]] ELSE f[3]
            /\ \A id \in DOMAIN db \ {resp.id} : db[id] = prev[id]

\* C29 witness: a save that names three keys, on a player whose stored
\* click power, prices and points were not the defaults
C29_Witness ==
    /\ resp.op = "save_game"
    /\ resp.body.success
    /\ resp.id \in DOMAIN prev
    /\ DOMAIN args.game_data = {"crystals", "priceMine", "luckLevel"}
    /\ prev[resp.id].clickpower = 7
    /\ prev[resp.id].priceautoclicker = 20
    /\ prev[resp.id].rebirthpoints > 0
    /\ db[resp.id].clickpower = 1

\* C30: whatever the constant offset between the store's clock and the
\* application's, a claim_luck_bonus succeeds no sooner than 3600 seconds
\* after the player's last successful one, and one made 3600 seconds or
\* more after it is not refused with the cooldown message.
C30_CooldownAcrossClocks ==
    (resp.op = "claim_luck_bonus" /\ resp.id \in DOMAIN prevClaim) =>
        LET elapsed == resp.at - prevClaim[resp.id]
        IN  /\ resp.body.success => elapsed >= 3600
            /\ (elapsed >= 3600 /\ ~resp.body.success) =>
                  resp.body.message # MsgCooldown

=============================================================================
